---- MODULE Spec2Model ----
(***************************************************************************)
(* Model of the tiny-input crate (src/src/lib.rs): the three macros        *)
(* raw_input!, tiny_input! and input!, run one call after another against  *)
(* the process's standard input and standard output.                       *)
(*                                                                         *)
(* Text is a sequence of one-character strings.  One call of a macro is    *)
(* followed statement by statement through the expansion of the macro; pc  *)
(* is the position of the call in that expansion.                          *)
(***************************************************************************)
EXTENDS Integers, Sequences, FiniteSets, TLC

\* ------------------------------------------------------------------ bounds
MaxLen == 3        \* longest content of standard input, in characters
MaxCalls == 2      \* number of macro calls one behaviour makes

\* ------------------------------------------------------------- vocabulary
NL == "\n"
CR == "\r"
Chars == {"4", "x", CR, NL}
Digits == {"0", "1", "2", "3", "4", "5", "6", "7", "8", "9"}
Prompts == {<<>>, <<">", " ">>}
Ops == {"raw", "tiny", "input"}

FETCH_ERROR == "I/O error occured while fetching input"

RECURSIVE SeqsUpTo(_)
SeqsUpTo(n) ==
    IF n = 0 THEN {<<>>}
    ELSE LET shorter == SeqsUpTo(n - 1)
         IN  shorter \cup {Append(s, c) : s \in {t \in shorter : Len(t) = n - 1}, c \in Chars}

\* ------------------------------------------------------------------ state
VARIABLES
    input0,      \* what standard input held when the process started
    stdin,       \* what is left to read on standard input
    outbuf,      \* bytes written to standard output and not yet flushed
    outdev,      \* bytes flushed to the console
    outLock,     \* TRUE while the call holds the StdoutLock
    pc,          \* position of the current call in the macro's expansion
    op,          \* which macro is being called
    hasPrompt,   \* TRUE for the form with format tokens
    prompt,      \* the formatted prompt text
    string,      \* the local String of raw_input!()
    res,         \* the value of the raw_input! expression
    final,       \* the value of the tiny_input! / input! expression
    line,        \* what read_line took from standard input in this call
    stdinAtCall, \* standard input when the call started
    outAtCall,   \* everything written to standard output when the call started
    written,     \* bytes this call passed to write!
    nWrites,     \* write! invocations of this call
    nFlushes,    \* flush invocations of this call
    nReads,      \* read_line invocations of this call
    nParses,     \* parse invocations of this call
    panicMsg,    \* message of the panic that halted the process
    failed,      \* the I/O step of this call that failed, "none" if none did
    nCalls,      \* calls completed so far
    allPlain     \* TRUE while every completed call was a successful raw_input!()

vars == <<input0, stdin, outbuf, outdev, outLock, pc, op, hasPrompt, prompt,
          string, res, final, line, stdinAtCall, outAtCall, written,
          nWrites, nFlushes, nReads, nParses, panicMsg, failed, nCalls, allPlain>>

\* ----------------------------------------------------------------- values
\* io::Result<String>
Ok(s) == [tag |-> "Ok", val |-> s, err |-> "none"]
Err(e) == [tag |-> "Err", val |-> <<>>, err |-> e]
NoRes == [tag |-> "None", val |-> <<>>, err |-> "none"]

\* the value of a typed fetch: Ok(value), Err(the type's own parse error),
\* Err(Error::Parse(e)) or Err(Error::Fetch(e))
OkVal(n) == [tag |-> "Ok", val |-> n, err |-> "none"]
NativeParseErr(e) == [tag |-> "ParseErr", val |-> 0, err |-> e]
ErrorParse(e) == [tag |-> "Error::Parse", val |-> 0, err |-> e]
ErrorFetch(e) == [tag |-> "Error::Fetch", val |-> 0, err |-> e]
NoFinal == [tag |-> "None", val |-> 0, err |-> "none"]

\* ------------------------------------------------------- pure operations
\* BufRead::read_line: the bytes up to and including the first line feed,
\* or everything that is left when there is none
FirstNL(s) ==
    IF \E i \in 1..Len(s) : s[i] = NL
    THEN CHOOSE i \in 1..Len(s) : s[i] = NL /\ \A j \in 1..(i - 1) : s[j] # NL
    ELSE 0

TakeLine(s) == IF FirstNL(s) = 0 THEN s ELSE SubSeq(s, 1, FirstNL(s))

AfterLine(s) == SubSeq(s, Len(TakeLine(s)) + 1, Len(s))

\* variant: a pop that also takes the character before the last one
PopTwo(s) == IF Len(s) <= 2 THEN <<>> ELSE SubSeq(s, 1, Len(s) - 2)

\* String::pop: removes the last character, whatever it is
Pop(s) == IF s = <<>> THEN s ELSE SubSeq(s, 1, Len(s) - 1)

\* str::parse::<u64>
DigitVal(c) ==
    CASE c = "0" -> 0 [] c = "1" -> 1 [] c = "2" -> 2 [] c = "3" -> 3
      [] c = "4" -> 4 [] c = "5" -> 5 [] c = "6" -> 6 [] c = "7" -> 7
      [] c = "8" -> 8 [] c = "9" -> 9

RECURSIVE DigitsValue(_)
DigitsValue(s) ==
    IF s = <<>> THEN 0
    ELSE 10 * DigitsValue(SubSeq(s, 1, Len(s) - 1)) + DigitVal(s[Len(s)])

ParseDigits(s) ==
    IF \A i \in 1..Len(s) : s[i] \in Digits
    THEN OkVal(DigitsValue(s))
    ELSE NativeParseErr("InvalidDigit")

ParseU64(s) ==
    IF s = <<>> THEN NativeParseErr("Empty")
    ELSE IF Len(s) = 1 /\ s[1] \in {"+", "-"} THEN NativeParseErr("InvalidDigit")
    ELSE IF s[1] = "+" THEN ParseDigits(Tail(s))
    ELSE ParseDigits(s)

\* ------------------------------------------------------------------- Init
Init ==
    /\ input0 \in SeqsUpTo(MaxLen)
    /\ stdin = input0
    /\ outbuf = <<>>
    /\ outdev = <<>>
    /\ outLock = FALSE
    /\ pc = "idle"
    /\ op = "raw"
    /\ hasPrompt = FALSE
    /\ prompt = <<>>
    /\ string = <<>>
    /\ res = NoRes
    /\ final = NoFinal
    /\ line = <<>>
    /\ stdinAtCall = input0
    /\ outAtCall = <<>>
    /\ written = <<>>
    /\ nWrites = 0
    /\ nFlushes = 0
    /\ nReads = 0
    /\ nParses = 0
    /\ panicMsg = "none"
    /\ failed = "none"
    /\ nCalls = 0
    /\ allPlain = TRUE

world == <<input0, panicMsg, nCalls, allPlain>>
callArgs == <<op, hasPrompt, prompt, stdinAtCall, outAtCall>>
results == <<res, final, nParses, failed>>
output == <<outbuf, outdev, written, nWrites, nFlushes>>
reading == <<stdin, string, line, nReads>>

\* ---------------------------------------------------------------- actions
\* a call of one of the macros begins; the form with tokens takes the
\* StdoutLock first, the form without goes straight to the read
Call ==
    /\ pc = "idle"
    /\ nCalls < MaxCalls
    /\ \E o \in Ops, hp \in BOOLEAN, p \in Prompts :
          /\ (~hp => p = <<>>)
          /\ op' = o
          /\ hasPrompt' = hp
          /\ prompt' = p
          /\ outLock' = hp
          /\ pc' = IF hp THEN "write" ELSE "read"
    /\ stdinAtCall' = stdin
    /\ outAtCall' = outdev \o outbuf
    /\ UNCHANGED <<world, output, reading, results>>

\* variant: writeln! in place of write!
WriteOk_Newline ==
    /\ pc = "write"
    /\ outbuf' = outbuf \o prompt \o <<NL>>
    /\ written' = written \o prompt \o <<NL>>
    /\ nWrites' = nWrites + 1
    /\ pc' = "flush"
    /\ UNCHANGED <<world, callArgs, reading, outdev, nFlushes, outLock, results>>

\* write!(stdout, tokens) succeeds
WriteOk ==
    /\ pc = "write"
    /\ outbuf' = outbuf \o prompt
    /\ written' = written \o prompt
    /\ nWrites' = nWrites + 1
    /\ pc' = "flush"
    /\ UNCHANGED <<world, callArgs, reading, outdev, nFlushes, outLock, results>>

\* variant: the result of write! is dropped and the call goes on
WriteErr_Ignored ==
    /\ pc = "write"
    /\ nWrites' = nWrites + 1
    /\ failed' = "write"
    /\ pc' = "flush"
    /\ UNCHANGED <<world, callArgs, reading, outbuf, outdev, written, nFlushes, outLock, res, final, nParses>>

\* write!(stdout, tokens) fails, after some part of the prompt may have
\* gone out: Err(error) => Err(error)
WriteErr ==
    /\ pc = "write"
    /\ \E k \in 0..Len(prompt) :
          /\ outbuf' = outbuf \o SubSeq(prompt, 1, k)
          /\ written' = written \o SubSeq(prompt, 1, k)
    /\ nWrites' = nWrites + 1
    /\ failed' = "write"
    /\ res' = Err("write")
    /\ pc' = "end"
    /\ UNCHANGED <<world, callArgs, reading, outdev, nFlushes, outLock, final, nParses>>

\* variant: drop(stdout) right after the flush
FlushOk_Unlock ==
    /\ pc = "flush"
    /\ outdev' = outdev \o outbuf
    /\ outbuf' = <<>>
    /\ nFlushes' = nFlushes + 1
    /\ outLock' = FALSE
    /\ pc' = "read"
    /\ UNCHANGED <<world, callArgs, reading, written, nWrites, results>>

\* stdout.flush() succeeds and the call goes on to raw_input!()
FlushOk ==
    /\ pc = "flush"
    /\ outdev' = outdev \o outbuf
    /\ outbuf' = <<>>
    /\ nFlushes' = nFlushes + 1
    /\ pc' = "read"
    /\ UNCHANGED <<world, callArgs, reading, written, nWrites, outLock, results>>

\* stdout.flush() fails, after some part of the buffer may have gone out
FlushErr ==
    /\ pc = "flush"
    /\ \E k \in 0..Len(outbuf) :
          /\ outdev' = outdev \o SubSeq(outbuf, 1, k)
          /\ outbuf' = SubSeq(outbuf, k + 1, Len(outbuf))
    /\ nFlushes' = nFlushes + 1
    /\ failed' = "flush"
    /\ res' = Err("flush")
    /\ pc' = "end"
    /\ UNCHANGED <<world, callArgs, reading, written, nWrites, outLock, final, nParses>>

\* stdin().lock().read_line(&mut string) succeeds
ReadOk ==
    /\ pc = "read"
    /\ line' = TakeLine(stdin)
    /\ string' = string \o TakeLine(stdin)
    /\ stdin' = AfterLine(stdin)
    /\ nReads' = nReads + 1
    /\ pc' = "pop"
    /\ UNCHANGED <<world, callArgs, output, outLock, results>>

\* read_line fails with an I/O error, after some part of the line may have
\* been taken from the stream; the bytes taken so far (valid UTF-8, as all
\* of Chars is) stay appended to the String, which the Err arm then drops
\* without reading it
ReadErr ==
    /\ pc = "read"
    /\ \E k \in 0..Len(TakeLine(stdin)) :
          /\ line' = SubSeq(stdin, 1, k)
          /\ string' = string \o SubSeq(stdin, 1, k)
          /\ stdin' = SubSeq(stdin, k + 1, Len(stdin))
    /\ nReads' = nReads + 1
    /\ failed' = "read"
    /\ res' = Err("read")
    /\ pc' = "end"
    /\ UNCHANGED <<world, callArgs, output, outLock, final, nParses>>

\* string.pop(); Ok(string)
PopString ==
    /\ pc = "pop"
    /\ string' = Pop(string)
    /\ res' = Ok(Pop(string))
    /\ pc' = "end"
    /\ UNCHANGED <<world, callArgs, output, outLock, stdin, line, nReads, final, nParses, failed>>

\* the block of raw_input! ends and its local stdout is dropped
EndBlock ==
    /\ pc = "end"
    /\ outLock' = FALSE
    /\ pc' = "post"
    /\ UNCHANGED <<world, callArgs, output, reading, results>>

\* raw_input! itself: the io::Result is the value of the call
RawDone ==
    /\ pc = "post"
    /\ op = "raw"
    /\ pc' = "done"
    /\ UNCHANGED <<world, callArgs, output, reading, outLock, results>>

\* tiny_input!: .expect(FETCH_ERROR) on an Err panics
TinyPanic ==
    /\ pc = "post"
    /\ op = "tiny"
    /\ res.tag = "Err"
    /\ panicMsg' = FETCH_ERROR
    /\ pc' = "panicked"
    /\ UNCHANGED <<input0, nCalls, allPlain, callArgs, output, reading, outLock, results>>

\* variant: .parse().expect(FETCH_ERROR), a parse failure panics too
TinyParse_Unwrap ==
    /\ pc = "post"
    /\ op = "tiny"
    /\ res.tag = "Ok"
    /\ final' = ParseU64(res.val)
    /\ nParses' = nParses + 1
    /\ panicMsg' = IF ParseU64(res.val).tag = "Ok" THEN panicMsg ELSE FETCH_ERROR
    /\ pc' = IF ParseU64(res.val).tag = "Ok" THEN "done" ELSE "panicked"
    /\ UNCHANGED <<input0, nCalls, allPlain, callArgs, output, reading, outLock, res, failed>>

\* tiny_input!: .expect(FETCH_ERROR) on an Ok, then .parse()
TinyParse ==
    /\ pc = "post"
    /\ op = "tiny"
    /\ res.tag = "Ok"
    /\ final' = ParseU64(res.val)
    /\ nParses' = nParses + 1
    /\ pc' = "done"
    /\ UNCHANGED <<world, callArgs, output, reading, outLock, res, failed>>

\* variant: .unwrap_or_default() before the parse, the I/O error is lost
InputFetchErr_ParseDefault ==
    /\ pc = "post"
    /\ op = "input"
    /\ res.tag = "Err"
    /\ final' = ErrorParse(ParseU64(<<>>).err)
    /\ nParses' = nParses + 1
    /\ pc' = "done"
    /\ UNCHANGED <<world, callArgs, output, reading, outLock, res, failed>>

\* input!: .map_err(Error::Fetch) on an Err; and_then does not run its closure
InputFetchErr ==
    /\ pc = "post"
    /\ op = "input"
    /\ res.tag = "Err"
    /\ final' = ErrorFetch(res.err)
    /\ pc' = "done"
    /\ UNCHANGED <<world, callArgs, output, reading, outLock, res, nParses, failed>>

\* variant: the parse error is wrapped into the wrong variant
InputParse_AsFetch ==
    /\ pc = "post"
    /\ op = "input"
    /\ res.tag = "Ok"
    /\ final' = LET p == ParseU64(res.val)
                IN  IF p.tag = "Ok" THEN p ELSE ErrorFetch(p.err)
    /\ nParses' = nParses + 1
    /\ pc' = "done"
    /\ UNCHANGED <<world, callArgs, output, reading, outLock, res, failed>>

\* variant: a parse failure sends the call back to read another line
InputParse_Retry ==
    /\ pc = "post"
    /\ op = "input"
    /\ res.tag = "Ok"
    /\ final' = LET p == ParseU64(res.val)
                IN  IF p.tag = "Ok" THEN p ELSE ErrorParse(p.err)
    /\ nParses' = nParses + 1
    /\ pc' = IF ParseU64(res.val).tag = "Ok" \/ nReads >= 2 THEN "done" ELSE "read"
    /\ UNCHANGED <<world, callArgs, output, reading, outLock, res, failed>>

\* input!: .and_then(|string| string.parse().map_err(Error::Parse)) on an Ok
InputParse ==
    /\ pc = "post"
    /\ op = "input"
    /\ res.tag = "Ok"
    /\ final' = LET p == ParseU64(res.val)
                IN  IF p.tag = "Ok" THEN p ELSE ErrorParse(p.err)
    /\ nParses' = nParses + 1
    /\ pc' = "done"
    /\ UNCHANGED <<world, callArgs, output, reading, outLock, res, failed>>

\* the caller takes the value; the locals of the call are gone
Return ==
    /\ pc = "done"
    /\ pc' = "idle"
    /\ nCalls' = nCalls + 1
    /\ allPlain' = (allPlain /\ op = "raw" /\ ~hasPrompt /\ res.tag = "Ok")
    /\ op' = "raw"
    /\ hasPrompt' = FALSE
    /\ prompt' = <<>>
    /\ string' = <<>>
    /\ res' = NoRes
    /\ final' = NoFinal
    /\ line' = <<>>
    /\ stdinAtCall' = stdin
    /\ outAtCall' = outdev \o outbuf
    /\ written' = <<>>
    /\ nWrites' = 0
    /\ nFlushes' = 0
    /\ nReads' = 0
    /\ nParses' = 0
    /\ failed' = "none"
    /\ UNCHANGED <<input0, stdin, outbuf, outdev, outLock, panicMsg>>

Next ==
    \/ Call
    \/ WriteOk
    \/ WriteErr
    \/ FlushOk
    \/ FlushErr
    \/ ReadOk
    \/ ReadErr
    \/ PopString
    \/ EndBlock
    \/ RawDone
    \/ TinyPanic
    \/ TinyParse
    \/ InputFetchErr
    \/ InputParse
    \/ Return

Spec == Init /\ [][Next]_vars

\* ----------------------------------------------------------------- claims
\* the call has run the block of raw_input! to its end
Fetched == pc \in {"end", "post", "done"}

NoNL(s) == \A i \in 1..Len(s) : s[i] # NL

\* s is one line: it ends in a line feed and holds no other
OneLine(s) == s # <<>> /\ s[Len(s)] = NL /\ NoNL(SubSeq(s, 1, Len(s) - 1))

\* what this call has taken from standard input
Consumed == SubSeq(stdinAtCall, 1, Len(stdinAtCall) - Len(stdin))

\* the lines of a text, each with its terminator; the last may have none
RECURSIVE LinesOf(_)
LinesOf(s) ==
    IF s = <<>> THEN <<>>
    ELSE IF NoNL(s) THEN <<s>>
    ELSE LET n == CHOOSE i \in 1..Len(s) : s[i] = NL /\ NoNL(SubSeq(s, 1, i - 1))
         IN  <<SubSeq(s, 1, n)>> \o LinesOf(SubSeq(s, n + 1, Len(s)))

WithoutTerminator(l) ==
    IF l # <<>> /\ l[Len(l)] = NL THEN SubSeq(l, 1, Len(l) - 1) ELSE l

\* C1: when what is left of the input has no line terminator (nothing at
\* all, or a last partial line), a successful raw fetch returns that text
\* unchanged.
C1_UnterminatedUnchanged ==
    (Fetched /\ res.tag = "Ok" /\ NoNL(stdinAtCall)) => res.val = stdinAtCall

\* C2: when the input starts with a line that ends in one line terminator,
\* a successful raw fetch returns that line without the terminator, every
\* other character kept in order.
C2_TerminatorRemoved ==
    (Fetched /\ res.tag = "Ok") =>
        \A n \in 1..Len(stdinAtCall) :
            OneLine(SubSeq(stdinAtCall, 1, n)) =>
                /\ res.val = SubSeq(stdinAtCall, 1, n - 1)
                /\ stdin = SubSeq(stdinAtCall, n + 1, Len(stdinAtCall))

C2_Witness ==
    /\ pc = "done"
    /\ op = "raw"
    /\ res.tag = "Ok"
    /\ Len(res.val) >= 2
    /\ OneLine(Consumed)

\* C3: when the write of the prompt or the flush fails, the call never
\* reads (no read_line, standard input untouched) and the value of raw
\* fetch is that I/O failure.
C3_WriteFailureSkipsRead ==
    failed \in {"write", "flush"} =>
        /\ pc \notin {"read", "pop"}
        /\ nReads = 0
        /\ stdin = stdinAtCall
        /\ (Fetched => res = Err(failed))

C3_Witness ==
    /\ pc = "done"
    /\ op = "raw"
    /\ failed = "write"
    /\ stdin # <<>>
    /\ res = Err("write")

\* C4: when the read begins, the call has written exactly the prompt and
\* flushed it, and has consumed nothing; from the read on, the output is
\* what it was at the start of the call followed by the prompt.
C4_PromptBeforeRead ==
    /\ (hasPrompt /\ pc = "read") =>
          /\ written = prompt
          /\ outbuf = <<>>
          /\ outdev = outAtCall \o prompt
          /\ nReads = 0
          /\ stdin = stdinAtCall
    /\ (hasPrompt /\ nReads > 0) =>
          /\ written = prompt
          /\ outbuf = <<>>
          /\ outdev = outAtCall \o prompt
    /\ (~hasPrompt /\ pc # "idle") =>
          /\ written = <<>>
          /\ outdev \o outbuf = outAtCall

C4_Witness ==
    /\ pc = "done"
    /\ op = "raw"
    /\ hasPrompt
    /\ prompt # <<>>
    /\ Consumed # <<>>
    /\ outdev = outAtCall \o prompt

\* C5: when the fetch fails with an I/O error, the recoverable typed fetch
\* returns Error::Fetch carrying that error and does not parse.
C5_FetchFailureNoParse ==
    (op = "input" /\ failed # "none") =>
        /\ nParses = 0
        /\ (pc = "done" => final = ErrorFetch(failed))

C5_Witness ==
    /\ pc = "done"
    /\ op = "input"
    /\ failed = "read"
    /\ final = ErrorFetch("read")

\* C6: when the fetch succeeds, the recoverable typed fetch returns the
\* parsed value if the text parses and Error::Parse with the type's own
\* error if it does not; never Error::Fetch.
C6_ParseOutcomeWrapped ==
    (op = "input" /\ pc = "done" /\ failed = "none") =>
        /\ res.tag = "Ok"
        /\ nParses = 1
        /\ final.tag \in {"Ok", "Error::Parse"}
        /\ (final.tag = "Ok") = (ParseU64(res.val).tag = "Ok")
        /\ final.val = ParseU64(res.val).val
        /\ final.err = ParseU64(res.val).err
        /\ (res.val = <<"4", "4">> => final = OkVal(44))
        /\ (res.val = <<"x">> => final = ErrorParse("InvalidDigit"))
        /\ (res.val = <<>> => final = ErrorParse("Empty"))

C6_Witness ==
    /\ pc = "done"
    /\ op = "input"
    /\ res = Ok(<<"x">>)
    /\ final = ErrorParse("InvalidDigit")

\* C7: the panicking typed fetch halts, with the fixed message, exactly
\* when the fetch failed with an I/O error; after a successful fetch it
\* returns the parsed value or the type's own parse failure.
C7_PanicOnlyOnFetchFailure ==
    /\ (pc = "panicked") = (panicMsg # "none")
    /\ pc = "panicked" =>
          /\ op = "tiny"
          /\ failed # "none"
          /\ res = Err(failed)
          /\ panicMsg = FETCH_ERROR
          /\ nParses = 0
    /\ (op = "tiny" /\ pc = "done") =>
          /\ failed = "none"
          /\ res.tag = "Ok"
          /\ final = ParseU64(res.val)
          /\ (res.val = <<"4">> => final = OkVal(4))
          /\ (res.val = <<"x">> => final = NativeParseErr("InvalidDigit"))

C7_Witness ==
    /\ pc = "panicked"
    /\ op = "tiny"
    /\ failed = "read"
    /\ nCalls = 1

\* C8: in a run of successful raw fetches without a prompt, the k-th call
\* returns the k-th line of the input.
C8_KthCallKthLine ==
    (pc = "done" /\ allPlain /\ op = "raw" /\ ~hasPrompt /\ res.tag = "Ok"
        /\ nCalls + 1 <= Len(LinesOf(input0))) =>
        res.val = WithoutTerminator(LinesOf(input0)[nCalls + 1])

\* C9: one call reads at most once, writes and flushes at most once, parses
\* at most once, and takes at most one line from standard input.
C9_SingleAttempt ==
    /\ nWrites <= 1
    /\ nFlushes <= 1
    /\ nReads <= 1
    /\ nParses <= 1
    /\ Len(written) <= Len(prompt)
    /\ stdinAtCall = Consumed \o stdin
    /\ (NoNL(Consumed) \/ OneLine(Consumed))

C9_Witness ==
    /\ pc = "done"
    /\ op = "input"
    /\ hasPrompt
    /\ final.tag = "Error::Parse"
    /\ nReads = 1
    /\ nParses = 1
    /\ stdin # <<>>

\* C10 as stated: the output lock is not held while the call reads.
C10_LockReleasedBeforeRead ==
    pc \in {"read", "pop"} => ~outLock

\* C10 as amended: a call with a prompt holds the output lock from before
\* the write until the block of raw_input! ends, the read included; it is
\* released before the value is parsed or returned, and a call without a
\* prompt never holds it.
C10_LockHeldUntilBlockEnd ==
    /\ (hasPrompt /\ pc \in {"write", "flush", "read", "pop", "end"}) => outLock
    /\ pc \in {"idle", "post", "done", "panicked"} => ~outLock
    /\ ~hasPrompt => ~outLock

C10_Witness ==
    /\ pc = "pop"
    /\ hasPrompt
    /\ outLock
    /\ nReads = 1
    /\ line # <<>>

====
